---------------------------- MODULE Spec2Model ----------------------------
(***************************************************************************)
(* The Security+ and Security+ 2.0 rolling-code codec of secplus.py.       *)
(*                                                                         *)
(* Every function of the codec is pure.  A state of the model is one call  *)
(* in progress: the function called, its arguments, and, once the call has *)
(* been carried out, what it returned or raised.  A second call may then   *)
(* be made on the value returned (decode what was encoded), prev keeping   *)
(* the first call.                                                         *)
(*                                                                         *)
(* Python integers are unbounded and TLC's are 32 bits wide, so an integer *)
(* n of the program is held as the pair hi, lo with n = hi * 2^16 + lo and *)
(* 0 <= lo < 2^16 (n < 0 exactly when hi < 0).  Lists are sequences; a     *)
(* string of binary digits is the sequence of its digits, a minus sign in  *)
(* it being the entry -1.                                                  *)
(***************************************************************************)
EXTENDS Integers, Sequences, FiniteSets, TLC

VARIABLES call, arg, ret, pc, prev

vars == <<call, arg, ret, pc, prev>>

(***************************************************************************)
(* Python values.                                                          *)
(***************************************************************************)

Radix == 2^16

Big(h, l) == [hi |-> h, lo |-> l]

\* The integer n, -2^31 < n < 2^31, as a pair.
BigOf(n) == Big(n \div Radix, n % Radix)

\* x * m + d  for a small m >= 0 and a small d (d may be negative).
BigMulAdd(x, m, d) ==
    LET t == x.lo * m + d
    IN  Big(x.hi * m + (t \div Radix), t % Radix)

\* x >= y
BigGe(x, y) == x.hi > y.hi \/ (x.hi = y.hi /\ x.lo >= y.lo)

\* -x
BigNeg(x) == IF x.lo = 0 THEN Big(0 - x.hi, 0) ELSE Big(0 - x.hi - 1, Radix - x.lo)

\* 2 ** k, for k < 46
Pow2(k) == IF k < 16 THEN Big(0, 2^k) ELSE Big(2^(k - 16), 0)

\* 3 ** 20, as 3^8 * 3^6 * 3^6
Pow3_20 == BigMulAdd(BigMulAdd(BigOf(3^8), 3^6, 0), 3^6, 0)

\* None where an integer may stand.
None == [none |-> TRUE]

\* A list that may be None instead: SomeList(v) is the list v.
NoList == [some |-> FALSE, v |-> <<>>]

SomeList(v) == [some |-> TRUE, v |-> v]

\* What a call gives: the value returned, or the exception raised.
Ok(v) == [ok |-> TRUE, val |-> v, exc |-> "", msg |-> ""]

Raise(e, m) == [ok |-> FALSE, val |-> <<>>, exc |-> e, msg |-> m]

NoRet == [ok |-> FALSE, val |-> <<>>, exc |-> "", msg |-> "pending"]

NoCall == [call |-> "", arg |-> <<>>]

\* s[a:b] of Python, 0 <= a, the indices counted from 0.
Slice(s, a, b) ==
    LET e == IF b < Len(s) THEN b ELSE Len(s)
    IN  IF a >= e THEN <<>> ELSE [i \in 1..(e - a) |-> s[a + i]]

\* s[::-1]
Reversed(s) == [i \in 1..Len(s) |-> s[Len(s) + 1 - i]]

\* s[k::3]
Stride3(s, k) == [i \in 1..((Len(s) - k + 2) \div 3) |-> s[k + 3 * (i - 1) + 1]]

\* The binary digits of n, 0 <= n < 2^30, most significant first, none for 0.
NatBits(n) ==
    LET len == CHOOSE k \in 0..30 : n \div (2^k) = 0 /\ (k = 0 \/ n \div (2^(k - 1)) > 0)
    IN  [i \in 1..len |-> (n \div (2^(len - i))) % 2]

ZeroFill(bits, w) ==
    IF Len(bits) >= w THEN bits ELSE [i \in 1..(w - Len(bits)) |-> 0] \o bits

\* The binary digits of x >= 0, at least one.
BigBits(x) ==
    LET raw == IF x.hi = 0 THEN NatBits(x.lo)
               ELSE NatBits(x.hi) \o ZeroFill(NatBits(x.lo), 16)
    IN  IF raw = <<>> THEN <<0>> ELSE raw

\* f"{x:0{w}b}": the sign, if any, then the digits zero-filled to the width.
FormatB(x, w) ==
    IF x.hi < 0 THEN <<-1>> \o ZeroFill(BigBits(BigNeg(x)), w - 1)
    ELSE ZeroFill(BigBits(x), w)

RECURSIVE NatValue(_, _, _)
\* The number the binary digits s[a..b] spell, for at most 30 digits.
NatValue(s, a, b) ==
    IF a > b THEN 0
    ELSE IF a = b THEN s[a]
    ELSE LET m == (a + b) \div 2
         IN  NatValue(s, a, m) * (2^(b - m)) + NatValue(s, m + 1, b)

\* The number the binary digits s spell, for at most 46 digits.
BitsValue(s) ==
    IF Len(s) <= 16 THEN Big(0, NatValue(s, 1, Len(s)))
    ELSE Big(NatValue(s, 1, Len(s) - 16), NatValue(s, Len(s) - 15, Len(s)))

\* int(s, 2): a sign is read only in front of at least one digit.
IntBase2(s) ==
    LET signed == Len(s) > 0 /\ s[1] = -1
        digits == IF signed THEN Tail(s) ELSE s
    IN  IF digits = <<>> \/ \E i \in 1..Len(digits) : digits[i] \notin {0, 1}
        THEN Raise("ValueError", "invalid literal for int() with base 2")
        ELSE IF signed THEN Ok(BigNeg(BitsValue(digits)))
        ELSE Ok(BitsValue(digits))

\* int(f"{x:0{w}b}"[::-1], 2)
ReverseBits(x, w) == IntBase2(Reversed(FormatB(x, w)))

\* x // m and x % m, for x >= 0 and 0 < m < 2^14.
BigDivSmall(x, m) ==
    LET t == (x.hi % m) * Radix + x.lo
    IN  Big(x.hi \div m, t \div m)

BigModSmall(x, m) == ((x.hi % m) * Radix + x.lo) % m

\* The n low base-3 digits of v >= 0, most significant first.
NatBase3(v, n) == [i \in 1..n |-> (v \div (3^(n - i))) % 3]

RECURSIVE Base3(_, _)
\* The n low base-3 digits of x >= 0, most significant first: what the loops
\* of encode and _encode_v2_rolling leave in the list they fill from its last
\* index down with x % 3, x //= 3.  Five digits (x % 3^5) are taken at a time.
Base3(x, n) ==
    IF n <= 5 THEN NatBase3(BigModSmall(x, 3^5), n)
    ELSE Base3(BigDivSmall(x, 3^5), n - 5) \o NatBase3(BigModSmall(x, 3^5), 5)

RECURSIVE NatBase3Value(_, _, _)
\* The number the base-3 digits s[a..b] spell, for at most 5 digits.
NatBase3Value(s, a, b) ==
    IF a > b THEN 0
    ELSE IF a = b THEN s[a]
    ELSE LET m == (a + b) \div 2
         IN  NatBase3Value(s, a, m) * (3^(b - m)) + NatBase3Value(s, m + 1, b)

RECURSIVE Base3Value(_, _)
\* The number the first n digits of s spell in base 3: what a loop of
\* x = (x * 3) + digit leaves in x.  Five digits are added at a time.
Base3Value(s, n) ==
    IF n <= 5 THEN BigOf(NatBase3Value(s, 1, n))
    ELSE BigMulAdd(Base3Value(s, n - 5), 3^5, NatBase3Value(s, n - 4, n))

(***************************************************************************)
(* Security+ (v1).                                                         *)
(***************************************************************************)

\* The digit a pass of the loop of decode adds to fixed, entered with acc
\* and reading the symbols c1 and c2, and the value it leaves in acc.
decode_digit(acc, c1, c2) == (c2 - (acc + c1)) % 3

decode_acc(acc, c1, c2) == (acc + c1) + decode_digit(acc, c1, c2)

RECURSIVE decode_pass(_, _)
\* acc on entering pass k (i = 2k) of the loop of decode: 0 for i in [0, 20].
decode_pass(code, k) ==
    IF k \in {0, 10} THEN 0
    ELSE decode_acc(decode_pass(code, k - 1), code[2 * k - 1], code[2 * k])

decode(code) ==
    IF Len(code) < 40
    THEN Raise("IndexError", "list index out of range")
    ELSE LET rolling_digits == [k \in 1..20 |-> code[2 * k - 1]]
             fixed_digits   == [k \in 1..20 |->
                                   decode_digit(decode_pass(code, k - 1),
                                                code[2 * k - 1], code[2 * k])]
             rolling        == ReverseBits(Base3Value(rolling_digits, 20), 32)
         IN  IF ~rolling.ok THEN rolling
             ELSE Ok(<<rolling.val, Base3Value(fixed_digits, 20)>>)

RECURSIVE encode_loop(_, _, _, _)
\* The second loop of encode from digit i on, acc being the running sum.
encode_loop(rolling_base3, fixed_base3, i, acc) ==
    IF i = 20 THEN <<>>
    ELSE LET acc0 == IF i \in {0, 10} THEN 0 ELSE acc
             acc1 == acc0 + rolling_base3[i + 1]
             acc2 == acc1 + fixed_base3[i + 1]
         IN  <<rolling_base3[i + 1], acc2 % 3>>
             \o encode_loop(rolling_base3, fixed_base3, i + 1, acc2)

\* The low bit is left as it is.
ClearBit0_kept(rolling) == rolling

\* rolling & 0xfffffffe, for 0 <= rolling < 2^32
ClearBit0(rolling) == Big(rolling.hi, rolling.lo - (rolling.lo % 2))

encode(rolling, fixed) ==
    IF BigGe(rolling, Pow2(32))
    THEN Raise("ValueError", "Rolling code must be less than 2^32")
    ELSE IF BigGe(fixed, Pow3_20)
    THEN Raise("ValueError", "Fixed code must be less than 3^20")
    ELSE LET reversed == ReverseBits(ClearBit0(rolling), 32)
         IN  IF ~reversed.ok THEN reversed
             ELSE Ok(encode_loop(Base3(reversed.val, 20), Base3(fixed, 20), 0, 0))

(***************************************************************************)
(* Security+ 2.0: the scrambling of a packet half.                         *)
(***************************************************************************)

_ORDER ==
    (0 :> <<0, 2, 1>>) @@ (1 :> <<2, 0, 1>>) @@ (2 :> <<0, 1, 2>>) @@
    (4 :> <<1, 2, 0>>) @@ (5 :> <<1, 0, 2>>) @@ (6 :> <<2, 1, 0>>) @@
    (8 :> <<1, 2, 0>>) @@ (9 :> <<2, 1, 0>>) @@ (10 :> <<0, 1, 2>>)

_INVERT ==
    (0 :> <<TRUE, TRUE, FALSE>>)  @@ (1 :> <<FALSE, TRUE, FALSE>>)  @@
    (2 :> <<FALSE, FALSE, TRUE>>) @@ (4 :> <<TRUE, TRUE, TRUE>>)    @@
    (5 :> <<TRUE, FALSE, TRUE>>)  @@ (6 :> <<FALSE, TRUE, TRUE>>)   @@
    (8 :> <<TRUE, FALSE, FALSE>>) @@ (9 :> <<FALSE, FALSE, FALSE>>) @@
    (10 :> <<TRUE, FALSE, TRUE>>)

\* (indicator[k] << 3) | (indicator[k+1] << 2) | (indicator[k+2] << 1) | indicator[k+3]
IndicatorKey(indicator, k) ==
    8 * indicator[k + 1] + 4 * indicator[k + 2] + 2 * indicator[k + 3] + indicator[k + 4]

\* [bit ^ 1 for bit in part] where inv, else the part as it is
InvertIf(inv, part) == IF inv THEN [i \in 1..Len(part) |-> 1 - part[i]] ELSE part

_v2_unscramble(indicator, payload) ==
    IF IndicatorKey(indicator, 0) \notin DOMAIN _ORDER
       \/ IndicatorKey(indicator, 4) \notin DOMAIN _INVERT
    THEN Raise("ValueError", "Illegal value for ternary bit")
    ELSE LET order  == _ORDER[IndicatorKey(indicator, 0)]
             invert == _INVERT[IndicatorKey(indicator, 4)]
             parts_permuted ==
                 [i \in 1..3 |-> InvertIf(invert[i], Stride3(payload, i - 1))]
         IN  Ok([j \in 1..3 |->
                    parts_permuted[CHOOSE i \in 1..3 : order[i] = j - 1]])

\* The parts are inverted and interleaved in the order they came in.
_v2_scramble_unpermuted(indicator, parts) ==
    IF IndicatorKey(indicator, 0) \notin DOMAIN _ORDER
    THEN Raise("KeyError", "_ORDER")
    ELSE IF IndicatorKey(indicator, 4) \notin DOMAIN _INVERT
    THEN Raise("KeyError", "_INVERT")
    ELSE LET invert == _INVERT[IndicatorKey(indicator, 4)]
             parts_permuted == [i \in 1..3 |-> InvertIf(invert[i], parts[i])]
             n == Len(parts_permuted[1])
         IN  IF Len(parts_permuted[2]) < n \/ Len(parts_permuted[3]) < n
             THEN Raise("IndexError", "list index out of range")
             ELSE Ok([j \in 1..(3 * n) |->
                         parts_permuted[((j - 1) % 3) + 1][((j - 1) \div 3) + 1]])

_v2_scramble(indicator, parts) ==
    IF IndicatorKey(indicator, 0) \notin DOMAIN _ORDER
    THEN Raise("KeyError", "_ORDER")
    ELSE IF IndicatorKey(indicator, 4) \notin DOMAIN _INVERT
    THEN Raise("KeyError", "_INVERT")
    ELSE LET order  == _ORDER[IndicatorKey(indicator, 0)]
             invert == _INVERT[IndicatorKey(indicator, 4)]
             parts_permuted ==
                 [i \in 1..3 |-> InvertIf(invert[i], parts[order[i] + 1])]
             n == Len(parts_permuted[1])
         IN  IF Len(parts_permuted[2]) < n \/ Len(parts_permuted[3]) < n
             THEN Raise("IndexError", "list index out of range")
             ELSE Ok([j \in 1..(3 * n) |->
                         parts_permuted[((j - 1) % 3) + 1][((j - 1) \div 3) + 1]])

(***************************************************************************)
(* Security+ 2.0: the rolling code across the two halves.                  *)
(***************************************************************************)

_decode_v2_rolling(rolling1, rolling2) ==
    LET rolling_digits ==
            Slice(rolling2, 8, 9) \o Slice(rolling1, 8, 9)
            \o Slice(rolling2, 4, 8) \o Slice(rolling1, 4, 8)
            \o Slice(rolling2, 0, 4) \o Slice(rolling1, 0, 4)
        rolling == Base3Value(rolling_digits, Len(rolling_digits))
    IN  IF BigGe(rolling, Pow2(28))
        THEN Raise("ValueError", "Rolling code was not in expected range")
        ELSE ReverseBits(rolling, 28)

\* rolling_base3[0:1] and rolling_base3[1:2] go to the wrong halves.
_encode_v2_rolling_swapped(rolling) ==
    LET reversed == ReverseBits(rolling, 28)
    IN  IF ~reversed.ok THEN reversed
        ELSE LET rolling_base3 == Base3(reversed.val, 18)
             IN  Ok(<<Slice(rolling_base3, 14, 18) \o Slice(rolling_base3, 6, 10)
                        \o Slice(rolling_base3, 0, 1),
                      Slice(rolling_base3, 10, 14) \o Slice(rolling_base3, 2, 6)
                        \o Slice(rolling_base3, 1, 2)>>)

\* Raises nothing for 0 <= rolling < 2^28; gives <<rolling1, rolling2>>.
_encode_v2_rolling(rolling) ==
    LET reversed == ReverseBits(rolling, 28)
    IN  IF ~reversed.ok THEN reversed
        ELSE LET rolling_base3 == Base3(reversed.val, 18)
             IN  Ok(<<Slice(rolling_base3, 14, 18) \o Slice(rolling_base3, 6, 10)
                        \o Slice(rolling_base3, 1, 2),
                      Slice(rolling_base3, 10, 14) \o Slice(rolling_base3, 2, 6)
                        \o Slice(rolling_base3, 0, 1)>>)

(***************************************************************************)
(* Security+ 2.0: a packet half.                                           *)
(***************************************************************************)

\* [(bits[i] << 1) | bits[i+1] for i in range(0, len(bits), 2)], len(bits) even
PairDigits(bits) == [i \in 1..(Len(bits) \div 2) |-> 2 * bits[2 * i - 1] + bits[2 * i]]

\* [digit >> 1, digit & 1 for digit in digits], the digits in 0..3
DigitPairs(digits) ==
    [j \in 1..(2 * Len(digits)) |->
        IF j % 2 = 1 THEN digits[(j + 1) \div 2] \div 2 ELSE digits[j \div 2] % 2]

\* The list rolling of _decode_v2_half_parts before its checks.
HalfDigits(indicator, parts) == PairDigits(indicator) \o PairDigits(parts[3])

\* Only three of the four digits are compared.
FirstFourRepeat_three(rolling) ==
    Slice(rolling, 0, 3) = Slice(rolling, Len(rolling) - 4, Len(rolling) - 1)

\* rolling[:4] == rolling[-4:], for a list of four digits at least
FirstFourRepeat(rolling) ==
    Slice(rolling, 0, 4) = Slice(rolling, Len(rolling) - 4, Len(rolling))

_decode_v2_half_parts(packet_type, indicator, payload) ==
    IF packet_type = 2 THEN Raise("ValueError", "Unsupported packet type")
    ELSE IF packet_type \notin {0, 1} THEN Raise("ValueError", "Invalid packet type")
    ELSE IF Len(payload) # (IF packet_type = 0 THEN 30 ELSE 54)
    THEN Raise("ValueError", "Incorrect payload length")
    ELSE LET parts == _v2_unscramble(indicator, payload)
         IN  IF ~parts.ok THEN parts
             ELSE LET rolling == HalfDigits(indicator, parts.val)
                      fixed   == Slice(parts.val[1], 0, 10) \o Slice(parts.val[2], 0, 10)
                  IN  IF \E i \in 1..Len(rolling) : rolling[i] = 3
                      THEN Raise("ValueError", "Illegal value for ternary bit")
                      ELSE IF packet_type = 0
                      THEN Ok(<<rolling, fixed, NoList>>)
                      ELSE IF ~FirstFourRepeat(rolling)
                      THEN Raise("ValueError", "Last four ternary bits do not repeat first four")
                      ELSE Ok(<<Slice(rolling, 0, Len(rolling) - 4), fixed,
                                SomeList(Slice(parts.val[1], 10, Len(parts.val[1]))
                                         \o Slice(parts.val[2], 10, Len(parts.val[2])))>>)

_decode_v2_half(code) ==
    IF Len(code) < 2 THEN Raise("IndexError", "list index out of range")
    ELSE _decode_v2_half_parts(2 * code[1] + code[2],
                               Slice(code, 2, 10), Slice(code, 10, Len(code)))

\* Gives <<packet_type, indicator, payload>>.
_encode_v2_half_parts(rolling, fixed, data) ==
    LET indicator == DigitPairs(Slice(rolling, 0, 4))
        high      == DigitPairs(Slice(rolling, 4, Len(rolling)))
        parts     ==
            IF ~data.some
            THEN <<Slice(fixed, 0, 10), Slice(fixed, 10, Len(fixed)), high>>
            ELSE <<Slice(fixed, 0, 10) \o Slice(data.v, 0, 8),
                   Slice(fixed, 10, Len(fixed)) \o Slice(data.v, 8, Len(data.v)),
                   high \o DigitPairs(Slice(rolling, 0, 4))>>
        payload   == _v2_scramble(indicator, parts)
    IN  IF ~payload.ok THEN payload
        ELSE Ok(<<IF data.some THEN 1 ELSE 0, indicator, payload.val>>)

_encode_v2_half(rolling, fixed, data) ==
    LET half == _encode_v2_half_parts(rolling, fixed, data)
    IN  IF ~half.ok THEN half
        ELSE Ok(<<half.val[1] \div 2, half.val[1] % 2>> \o half.val[2] \o half.val[3])

(***************************************************************************)
(* Security+ 2.0: a transmission, over the air and on the wire.            *)
(***************************************************************************)

\* What decode_v2 and decode_wireline do with the two halves decoded.
JoinHalves(half1, half2) ==
    LET rolling == _decode_v2_rolling(half1[1], half2[1])
    IN  IF ~rolling.ok THEN rolling
        ELSE LET fixed == IntBase2(half1[2] \o half2[2])
             IN  IF ~fixed.ok THEN fixed
                 ELSE IF ~half1[3].some THEN Ok(<<rolling.val, fixed.val, None>>)
                 ELSE IF ~half2[3].some
                 THEN Raise("TypeError", "can only concatenate list to list")
                 ELSE LET data == IntBase2(half1[3].v \o half2[3].v)
                      IN  IF ~data.ok THEN data
                          ELSE Ok(<<rolling.val, fixed.val, data.val>>)

decode_v2(code) ==
    LET half_len == Len(code) \div 2
        half1    == _decode_v2_half(Slice(code, 0, half_len))
    IN  IF ~half1.ok THEN half1
        ELSE LET half2 == _decode_v2_half(Slice(code, half_len, Len(code)))
             IN  IF ~half2.ok THEN half2
                 ELSE JoinHalves(half1.val, half2.val)

_decode_wireline_half(code) ==
    IF Slice(code, 8, 10) # <<0, 0>>
    THEN Raise("ValueError", "Unexpected values for bits 8 and 9")
    ELSE _decode_v2_half_parts(1, Slice(code, 0, 8), Slice(code, 10, Len(code)))

\* The bits of the bytes, the most significant bit of each byte first.
BytesBits(bytes) ==
    [j \in 1..(8 * Len(bytes)) |->
        (bytes[((j - 1) \div 8) + 1] \div (2^(7 - ((j - 1) % 8)))) % 2]

WirelineHeader == <<85, 1, 0>>

\* The header is looked at before the length.
decode_wireline_header_first(code) ==
    IF Slice(code, 0, 3) # WirelineHeader
    THEN Raise("ValueError", "First three bytes must be 0x55, 0x01, 0x00")
    ELSE IF Len(code) # 19
    THEN Raise("ValueError", "Input must be 19 bytes long")
    ELSE LET code_bits == BytesBits(Slice(code, 3, Len(code)))
             half1     == _decode_wireline_half(Slice(code_bits, 0, 64))
         IN  IF ~half1.ok THEN half1
             ELSE LET half2 == _decode_wireline_half(Slice(code_bits, 64, Len(code_bits)))
                  IN  IF ~half2.ok THEN half2
                      ELSE JoinHalves(half1.val, half2.val)

\* code is a bytes object: a list of integers in 0..255.
decode_wireline(code) ==
    IF Len(code) # 19
    THEN Raise("ValueError", "Input must be 19 bytes long")
    ELSE IF Slice(code, 0, 3) # WirelineHeader
    THEN Raise("ValueError", "First three bytes must be 0x55, 0x01, 0x00")
    ELSE LET code_bits == BytesBits(Slice(code, 3, Len(code)))
             half1     == _decode_wireline_half(Slice(code_bits, 0, 64))
         IN  IF ~half1.ok THEN half1
             ELSE LET half2 == _decode_wireline_half(Slice(code_bits, 64, Len(code_bits)))
                  IN  IF ~half2.ok THEN half2
                      ELSE JoinHalves(half1.val, half2.val)

\* data is compared with > instead of >=.
_v2_check_limits_above(rolling, fixed, data) ==
    IF BigGe(rolling, Pow2(28))
    THEN Raise("ValueError", "Rolling code must be less than 2^28")
    ELSE IF BigGe(fixed, Pow2(40))
    THEN Raise("ValueError", "Fixed code must be less than 2^40")
    ELSE IF data # None /\ BigGe(data, BigMulAdd(Pow2(32), 1, 1))
    THEN Raise("ValueError", "Data must be less than 2^32")
    ELSE Ok(None)

_v2_check_limits(rolling, fixed, data) ==
    IF BigGe(rolling, Pow2(28))
    THEN Raise("ValueError", "Rolling code must be less than 2^28")
    ELSE IF BigGe(fixed, Pow2(40))
    THEN Raise("ValueError", "Fixed code must be less than 2^40")
    ELSE IF data # None /\ BigGe(data, Pow2(32))
    THEN Raise("ValueError", "Data must be less than 2^32")
    ELSE Ok(None)

encode_v2(rolling, fixed, data) ==
    LET limits == _v2_check_limits(rolling, fixed, data)
    IN  IF ~limits.ok THEN limits
        ELSE LET halves     == _encode_v2_rolling(rolling)
                 fixed_bits == FormatB(fixed, 40)
                 data_bits  == IF data = None THEN <<>> ELSE FormatB(data, 32)
                 data1      == IF data = None THEN NoList
                               ELSE SomeList(Slice(data_bits, 0, 16))
                 data2      == IF data = None THEN NoList
                               ELSE SomeList(Slice(data_bits, 16, Len(data_bits)))
             IN  IF ~halves.ok THEN halves
                 ELSE LET h1 == _encode_v2_half(halves.val[1],
                                                Slice(fixed_bits, 0, 20), data1)
                          h2 == _encode_v2_half(halves.val[2],
                                                Slice(fixed_bits, 20, Len(fixed_bits)), data2)
                      IN  IF ~h1.ok THEN h1
                          ELSE IF ~h2.ok THEN h2
                          ELSE Ok(h1.val \o h2.val)

\* The two marker bits are put in front of the indicator.
_encode_wireline_half_front(rolling, fixed, data) ==
    LET half == _encode_v2_half_parts(rolling, fixed, data)
    IN  IF ~half.ok THEN half
        ELSE Ok(<<0, 0>> \o half.val[2] \o half.val[3])

_encode_wireline_half(rolling, fixed, data) ==
    LET half == _encode_v2_half_parts(rolling, fixed, data)
    IN  IF ~half.ok THEN half
        ELSE Ok(half.val[2] \o <<0, 0>> \o half.val[3])

\* The bytes of the bits, eight bits to a byte, a last short group dropped.
BitsBytes(bits) ==
    [n \in 1..(Len(bits) \div 8) |-> NatValue(bits, 8 * n - 7, 8 * n)]

encode_wireline(rolling, fixed, data) ==
    LET limits == _v2_check_limits(rolling, fixed, data)
    IN  IF ~limits.ok THEN limits
        ELSE LET halves     == _encode_v2_rolling(rolling)
                 fixed_bits == FormatB(fixed, 40)
             IN  IF ~halves.ok THEN halves
                 ELSE IF data = None
                 THEN Raise("TypeError", "unsupported format string passed to NoneType.__format__")
                 ELSE LET data_bits == FormatB(data, 32)
                          h1 == _encode_wireline_half(halves.val[1], Slice(fixed_bits, 0, 20),
                                    SomeList(Slice(data_bits, 0, 16)))
                          h2 == _encode_wireline_half(halves.val[2],
                                    Slice(fixed_bits, 20, Len(fixed_bits)),
                                    SomeList(Slice(data_bits, 16, Len(data_bits))))
                      IN  IF ~h1.ok THEN h1
                          ELSE IF ~h2.ok THEN h2
                          ELSE Ok(WirelineHeader \o BitsBytes(h1.val \o h2.val))

(***************************************************************************)
(* The calls made.                                                         *)
(***************************************************************************)

MaxSeed == 2

\* A 16-bit pattern per seed: all zeros, all ones, then mixed ones.
Limb(s) == CASE s = 0 -> 0
             [] s = 1 -> Radix - 1
             [] OTHER -> (s * 40503) % Radix

Seeds == 0..MaxSeed

\* Arguments in range: rolling < 2^32 and fixed < 3^20 for encode, and
\* rolling < 2^28, fixed < 2^40, data < 2^32 or None for the 2.0 encoders.
V1Rolling == {Big(Limb(a), Limb(b)) : a, b \in Seeds}

V1Fixed ==
    {f \in V1Rolling : ~BigGe(f, Pow3_20)} \cup {BigMulAdd(Pow3_20, 1, -1)}

V2Rolling == {Big(Limb(a) % (2^12), Limb(b)) : a, b \in Seeds}

V2Fixed == {Big(Limb(a) * (2^8) + (Limb(b) \div (2^8)), Limb(b)) : a, b \in Seeds}

V2Data == V1Rolling

\* Arguments out of range: the least value out of range, and larger ones.
Beyond(least) == {least, BigMulAdd(least, 1, 1), BigMulAdd(least, 3, 7)}

V1Args ==
    [rolling : V1Rolling \cup Beyond(Pow2(32)), fixed : V1Fixed \cup Beyond(Pow3_20)]

V2Args ==
    [rolling : V2Rolling \cup Beyond(Pow2(28)),
     fixed   : V2Fixed \cup Beyond(Pow2(40)),
     data    : V2Data \cup Beyond(Pow2(32)) \cup {None}]

Init ==
    /\ pc = "call"
    /\ \/ call = "encode" /\ arg \in V1Args
       \/ call \in {"encode_v2", "encode_wireline"} /\ arg \in V2Args
    /\ ret = NoRet
    /\ prev = NoCall

Encode ==
    /\ pc = "call"
    /\ call = "encode"
    /\ ret' = encode(arg.rolling, arg.fixed)
    /\ pc' = "ret"
    /\ UNCHANGED <<call, arg, prev>>

EncodeV2 ==
    /\ pc = "call"
    /\ call = "encode_v2"
    /\ ret' = encode_v2(arg.rolling, arg.fixed, arg.data)
    /\ pc' = "ret"
    /\ UNCHANGED <<call, arg, prev>>

EncodeWireline ==
    /\ pc = "call"
    /\ call = "encode_wireline"
    /\ ret' = encode_wireline(arg.rolling, arg.fixed, arg.data)
    /\ pc' = "ret"
    /\ UNCHANGED <<call, arg, prev>>

\* The decoder that reads what an encoder writes.
DecoderOf(encoder) ==
    CASE encoder = "encode" -> "decode"
      [] encoder = "encode_v2" -> "decode_v2"
      [] encoder = "encode_wireline" -> "decode_wireline"

\* What an encoder returned is handed, as it is, to its decoder.
Deliver ==
    /\ pc = "ret"
    /\ call \in {"encode", "encode_v2", "encode_wireline"}
    /\ ret.ok
    /\ prev' = [call |-> call, arg |-> arg]
    /\ call' = DecoderOf(call)
    /\ arg' = [code |-> ret.val]
    /\ ret' = NoRet
    /\ pc' = "call"

Decode ==
    /\ pc = "call"
    /\ call = "decode"
    /\ ret' = decode(arg.code)
    /\ pc' = "ret"
    /\ UNCHANGED <<call, arg, prev>>

DecodeV2 ==
    /\ pc = "call"
    /\ call = "decode_v2"
    /\ ret' = decode_v2(arg.code)
    /\ pc' = "ret"
    /\ UNCHANGED <<call, arg, prev>>

DecodeWireline ==
    /\ pc = "call"
    /\ call = "decode_wireline"
    /\ ret' = decode_wireline(arg.code)
    /\ pc' = "ret"
    /\ UNCHANGED <<call, arg, prev>>

Next ==
    \/ Encode
    \/ EncodeV2
    \/ EncodeWireline
    \/ Deliver
    \/ Decode
    \/ DecodeV2
    \/ DecodeWireline

Spec == Init /\ [][Next]_vars

(***************************************************************************)
(* What an encoder returned reaches its decoder changed: cut short, grown, *)
(* a symbol replaced, the header of a frame replaced.                      *)
(***************************************************************************)

\* One call of each encoder per seed, the arguments in range.
SeedArgs(f, s) ==
    IF f = "encode"
    THEN [rolling |-> Big(Limb(s), Limb(s + 2)), fixed |-> Big(Limb(s + 2) % (2^15), Limb(s))]
    ELSE [rolling |-> Big(Limb(s) % (2^12), Limb(s + 2)),
          fixed   |-> Big(Limb(s + 2) * (2^8) + (Limb(s) \div (2^8)), Limb(s + 3)),
          data    |-> IF f = "encode_v2" /\ s % 2 = 1 THEN None
                      ELSE Big(Limb(s + 3), Limb(s + 2))]

InitTamper ==
    /\ pc = "call"
    /\ call \in {"encode", "encode_v2", "encode_wireline"}
    /\ \E s \in Seeds : arg = SeedArgs(call, s)
    /\ ret = NoRet
    /\ prev = NoCall

\* The call of the decoder of what was returned, on code.
Handed(code) ==
    /\ pc = "ret"
    /\ call \in {"encode", "encode_v2", "encode_wireline"}
    /\ ret.ok
    /\ prev' = [call |-> call, arg |-> arg]
    /\ call' = DecoderOf(call)
    /\ arg' = [code |-> code]
    /\ ret' = NoRet
    /\ pc' = "call"

\* The last symbol, bit or byte is lost.
DeliverCut == Handed(SubSeq(ret.val, 1, Len(ret.val) - 1))

\* One more symbol, bit or byte arrives.
DeliverGrown == \E x \in {0, 1} : Handed(Append(ret.val, x))

\* The symbols outside {0, 1, 2} a receiver may hand to decode.
IllegalSymbols == {-1, 3}

\* One symbol of a Security+ code arrives as a symbol that is none.
DeliverSymbol ==
    /\ call = "encode"
    /\ \E p \in 1..Len(ret.val), x \in IllegalSymbols :
          Handed([ret.val EXCEPT ![p] = x])

\* Frame lengths around the 19 bytes of a frame, and the shortest ones.
FrameLengths == {0, 2, 3, 18, 19, 20}

\* Headers that differ from 0x55 0x01 0x00 in one byte, and the header.
FrameHeaders == {<<85, 1, 0>>, <<84, 1, 0>>, <<85, 0, 0>>, <<85, 1, 1>>}

\* A frame arrives with another header, cut or grown to n bytes.
DeliverFrame ==
    /\ call = "encode_wireline"
    /\ \E h \in FrameHeaders, n \in FrameLengths :
          Handed(SubSeq(h \o Slice(ret.val, 3, Len(ret.val)) \o <<0>>, 1, n))

NextTamper ==
    \/ Encode
    \/ EncodeV2
    \/ EncodeWireline
    \/ Deliver
    \/ DeliverCut
    \/ DeliverGrown
    \/ DeliverSymbol
    \/ DeliverFrame
    \/ Decode
    \/ DecodeV2
    \/ DecodeWireline

SpecTamper == InitTamper /\ [][NextTamper]_vars

(***************************************************************************)
(* One half of a transmission with data is taken off the air or the wire,  *)
(* a bit of it may flip, and the half is decoded.                          *)
(***************************************************************************)

InitHalf ==
    /\ pc = "call"
    /\ call \in {"encode_v2", "encode_wireline"}
    /\ \E s \in Seeds : arg = SeedArgs("encode_wireline", s)
    /\ ret = NoRet
    /\ prev = NoCall

\* The indicator and the payload of half h of what encoder f returned: as
\* _decode_v2_half and _decode_wireline_half cut them out of the 64 bits.
TakeHalf(f, code, h) ==
    LET bits == IF f = "encode_v2" THEN code ELSE BytesBits(Slice(code, 3, Len(code)))
        half == Slice(bits, 64 * (h - 1), 64 * h)
    IN  IF f = "encode_v2"
        THEN <<Slice(half, 2, 10), Slice(half, 10, 64)>>
        ELSE <<Slice(half, 0, 8), Slice(half, 10, 64)>>

\* Bit k of the indicator followed by the payload flips; none for k = 0.
FlipBit(half, k) ==
    LET bits == [i \in 1..(Len(half[1]) + Len(half[2])) |->
                    IF i = k THEN 1 - (half[1] \o half[2])[i] ELSE (half[1] \o half[2])[i]]
    IN  <<Slice(bits, 0, Len(half[1])), Slice(bits, Len(half[1]), Len(bits))>>

InterceptHalf ==
    /\ pc = "ret"
    /\ call \in {"encode_v2", "encode_wireline"}
    /\ ret.ok
    /\ \E h \in 1..2, k \in 0..62 :
          LET half == FlipBit(TakeHalf(call, ret.val, h), k)
          IN  arg' = [packet_type |-> 1, indicator |-> half[1], payload |-> half[2]]
    /\ prev' = [call |-> call, arg |-> arg]
    /\ call' = "_decode_v2_half_parts"
    /\ ret' = NoRet
    /\ pc' = "call"

DecodeHalfParts ==
    /\ pc = "call"
    /\ call = "_decode_v2_half_parts"
    /\ ret' = _decode_v2_half_parts(arg.packet_type, arg.indicator, arg.payload)
    /\ pc' = "ret"
    /\ UNCHANGED <<call, arg, prev>>

NextHalf == EncodeV2 \/ EncodeWireline \/ InterceptHalf \/ DecodeHalfParts

SpecHalf == InitHalf /\ [][NextHalf]_vars

(***************************************************************************)
(* The scrambling on its own: every indicator of 8 bits, legal or not,     *)
(* with parts of 10 or 18 bits each and payloads of 30 or 54 bits.         *)
(***************************************************************************)

\* Bit i of the bit pattern of seed s.
HashBit(s, i) == ((i * (s + 1) * 40503) \div (2^8)) % 2

Indicators == [1..8 -> {0, 1}]

ScrambleArgs ==
    [indicator : Indicators,
     parts     : {[j \in 1..3 |-> [i \in 1..n |-> HashBit(3 * s + j, i)]] :
                     s \in Seeds, n \in {10, 18}}]

UnscrambleArgs ==
    [indicator : Indicators,
     payload   : {[i \in 1..n |-> HashBit(s, i)] : s \in Seeds, n \in {30, 54}}]

InitScramble ==
    /\ pc = "call"
    /\ \/ call = "_v2_scramble" /\ arg \in ScrambleArgs
       \/ call = "_v2_unscramble" /\ arg \in UnscrambleArgs
    /\ ret = NoRet
    /\ prev = NoCall

Scramble ==
    /\ pc = "call"
    /\ call = "_v2_scramble"
    /\ ret' = _v2_scramble(arg.indicator, arg.parts)
    /\ pc' = "ret"
    /\ UNCHANGED <<call, arg, prev>>

Unscramble ==
    /\ pc = "call"
    /\ call = "_v2_unscramble"
    /\ ret' = _v2_unscramble(arg.indicator, arg.payload)
    /\ pc' = "ret"
    /\ UNCHANGED <<call, arg, prev>>

\* What one of the two returned is handed to the other, the indicator kept.
Undo ==
    /\ pc = "ret"
    /\ call \in {"_v2_scramble", "_v2_unscramble"}
    /\ ret.ok
    /\ prev = NoCall
    /\ prev' = [call |-> call, arg |-> arg]
    /\ call' = IF call = "_v2_scramble" THEN "_v2_unscramble" ELSE "_v2_scramble"
    /\ arg' = IF call = "_v2_scramble"
              THEN [indicator |-> arg.indicator, payload |-> ret.val]
              ELSE [indicator |-> arg.indicator, parts |-> ret.val]
    /\ ret' = NoRet
    /\ pc' = "call"

NextScramble == Scramble \/ Unscramble \/ Undo

SpecScramble == InitScramble /\ [][NextScramble]_vars

(***************************************************************************)
(* Round trips and range checks, checked under Spec.                       *)
(***************************************************************************)

Returned(f) == pc = "ret" /\ call = f

InRangeV1(a) == ~BigGe(a.rolling, Pow2(32)) /\ ~BigGe(a.fixed, Pow3_20)

InRangeV2(a) ==
    /\ ~BigGe(a.rolling, Pow2(28))
    /\ ~BigGe(a.fixed, Pow2(40))
    /\ a.data # None => ~BigGe(a.data, Pow2(32))

RangeViolation ==
    {"Rolling code must be less than 2^32", "Fixed code must be less than 3^20",
     "Rolling code must be less than 2^28", "Fixed code must be less than 2^40",
     "Data must be less than 2^32"}

\* C1: encode_v2 accepts every rolling < 2^28, fixed < 2^40 and data that is
\* None or < 2^32, and decode_v2 of what it returns gives back exactly
\* (rolling, fixed, data), data being None on output exactly when it was on input.
C1_RoundTripV2 ==
    /\ Returned("encode_v2") /\ InRangeV2(arg) => ret.ok
    /\ Returned("decode_v2") /\ prev.call = "encode_v2" =>
          /\ ret.ok
          /\ ret.val = <<prev.arg.rolling, prev.arg.fixed, prev.arg.data>>
          /\ (ret.val[3] = None) <=> (prev.arg.data = None)

C1_Witness ==
    /\ Returned("decode_v2")
    /\ prev.call = "encode_v2"
    /\ prev.arg.data # None
    /\ prev.arg.rolling \notin {Big(0, 0), BigMulAdd(Pow2(28), 1, -1)}
    /\ ret.ok

\* C2: encode_wireline gives, for rolling < 2^28, fixed < 2^40 and data < 2^32,
\* exactly 19 bytes that begin 0x55 0x01 0x00 and in which bits 8 and 9 of each
\* 64-bit half are 0, and decode_wireline of them gives back (rolling, fixed, data).
C2_RoundTripWireline ==
    /\ Returned("encode_wireline") /\ InRangeV2(arg) /\ arg.data # None =>
          /\ ret.ok
          /\ Len(ret.val) = 19
          /\ <<ret.val[1], ret.val[2], ret.val[3]>> = <<85, 1, 0>>
          /\ \A n \in 1..19 : ret.val[n] \in 0..255
          /\ ret.val[5] \div 64 = 0
          /\ ret.val[13] \div 64 = 0
    /\ Returned("decode_wireline") /\ prev.call = "encode_wireline" =>
          /\ ret.ok
          /\ ret.val = <<prev.arg.rolling, prev.arg.fixed, prev.arg.data>>

C2_Witness ==
    /\ Returned("decode_wireline")
    /\ prev.call = "encode_wireline"
    /\ prev.arg.rolling \notin {Big(0, 0), BigMulAdd(Pow2(28), 1, -1)}
    /\ prev.arg.fixed # Big(0, 0)
    /\ ret.ok

\* C3: encode gives, for rolling < 2^32 and fixed < 3^20, 40 digits in
\* {0, 1, 2}, and decode of them gives (rolling with bit 0 cleared, fixed).
C3_RoundTripV1 ==
    /\ Returned("encode") /\ InRangeV1(arg) =>
          /\ ret.ok
          /\ Len(ret.val) = 40
          /\ \A i \in 1..40 : ret.val[i] \in {0, 1, 2}
    /\ Returned("decode") /\ prev.call = "encode" =>
          /\ ret.ok
          /\ ret.val = <<Big(prev.arg.rolling.hi,
                             prev.arg.rolling.lo - (prev.arg.rolling.lo % 2)),
                         prev.arg.fixed>>

\* The low bit of rolling was set, and is lost.
C3_Witness ==
    /\ Returned("decode")
    /\ prev.call = "encode"
    /\ prev.arg.rolling.lo % 2 = 1
    /\ prev.arg.fixed # Big(0, 0)
    /\ ret.ok
    /\ ret.val[1] # prev.arg.rolling

\* C4: encode raises a range error for rolling >= 2^32 and for fixed >= 3^20;
\* encode_v2 and encode_wireline raise one for rolling >= 2^28, for
\* fixed >= 2^40 and for data >= 2^32, whatever the other arguments are.
C4_RangeChecks ==
    /\ Returned("encode") /\ ~InRangeV1(arg) =>
          ~ret.ok /\ ret.exc = "ValueError" /\ ret.msg \in RangeViolation
    /\ (Returned("encode_v2") \/ Returned("encode_wireline")) /\ ~InRangeV2(arg) =>
          ~ret.ok /\ ret.exc = "ValueError" /\ ret.msg \in RangeViolation

\* data = 2^32 with rolling and fixed in range.
C4_Witness ==
    /\ Returned("encode_wireline")
    /\ arg.data = Pow2(32)
    /\ ~BigGe(arg.rolling, Pow2(28))
    /\ ~BigGe(arg.fixed, Pow2(40))
    /\ ret.msg = "Data must be less than 2^32"

(***************************************************************************)
(* Lengths, headers and symbols on decoding, checked under SpecTamper.     *)
(***************************************************************************)

\* The call raised for the length of its input: one of the two length
\* messages, or the IndexError of reading past the end of a list.
LengthViolation(r) ==
    /\ ~r.ok
    /\ \/ r.exc = "ValueError" /\ r.msg \in {"Incorrect payload length",
                                                "Input must be 19 bytes long"}
       \/ r.exc = "IndexError"

\* C5: decode raises a length error for every code of 39 symbols and every
\* code of 41 symbols, decode_v2 for every code of 79 bits, decode_wireline
\* for every frame of 18 bytes.
C5_LengthChecks ==
    /\ Returned("decode") /\ Len(arg.code) \in {39, 41} => LengthViolation(ret)
    /\ Returned("decode_v2") /\ Len(arg.code) = 79 => LengthViolation(ret)
    /\ Returned("decode_wireline") /\ Len(arg.code) = 18 => LengthViolation(ret)

HeaderMessage == "First three bytes must be 0x55, 0x01, 0x00"

BadHeader(code) == Len(code) < 3 \/ <<code[1], code[2], code[3]>> # <<85, 1, 0>>

\* C6: decode_wireline raises the header error for every frame that does not
\* begin 0x55 0x01 0x00, of whatever length.
C6_HeaderAnyLength ==
    Returned("decode_wireline") /\ BadHeader(arg.code) =>
        ~ret.ok /\ ret.msg = HeaderMessage

\* C6 as amended: decode_wireline raises for every frame that does not begin
\* 0x55 0x01 0x00: the header error when the frame has 19 bytes, and the
\* length error when it has not.
C6_HeaderAfterLength ==
    Returned("decode_wireline") /\ BadHeader(arg.code) =>
        /\ ~ret.ok
        /\ ret.exc = "ValueError"
        /\ ret.msg = IF Len(arg.code) = 19 THEN HeaderMessage
                     ELSE "Input must be 19 bytes long"

C6_Witness ==
    /\ Returned("decode_wireline")
    /\ Len(arg.code) = 19
    /\ arg.code[1] # 85
    /\ ret.msg = HeaderMessage

\* C7: decode raises for every code of 40 symbols of which one at least is
\* outside {0, 1, 2}.
C7_IllegalSymbols ==
    Returned("decode") /\ Len(arg.code) = 40
      /\ (\E i \in 1..40 : arg.code[i] \notin {0, 1, 2}) => ~ret.ok

(***************************************************************************)
(* The scrambling, checked under SpecScramble.                             *)
(***************************************************************************)

LegalKeys == {0, 1, 2, 4, 5, 6, 8, 9, 10}

KeyOf(b1, b2, b3, b4) == 8 * b1 + 4 * b2 + 2 * b3 + b4

LegalIndicator(ind) ==
    /\ KeyOf(ind[1], ind[2], ind[3], ind[4]) \in LegalKeys
    /\ KeyOf(ind[5], ind[6], ind[7], ind[8]) \in LegalKeys

\* C8: under every indicator whose two keys are legal, _v2_unscramble undoes
\* _v2_scramble on three parts of 10 or of 18 bits, and _v2_scramble undoes
\* _v2_unscramble on a payload of 30 or of 54 bits.
C8_ScrambleBijection ==
    /\ Returned("_v2_scramble") /\ LegalIndicator(arg.indicator) =>
          ret.ok /\ Len(ret.val) = 3 * Len(arg.parts[1])
    /\ Returned("_v2_unscramble") /\ LegalIndicator(arg.indicator) =>
          ret.ok /\ Len(ret.val) = 3
    /\ Returned("_v2_unscramble") /\ prev.call = "_v2_scramble" =>
          ret.ok /\ ret.val = prev.arg.parts
    /\ Returned("_v2_scramble") /\ prev.call = "_v2_unscramble" =>
          ret.ok /\ ret.val = prev.arg.payload

\* Parts of 18 bits, permuted (key 0110) and some of them inverted (key 0101).
C8_Witness ==
    /\ Returned("_v2_unscramble")
    /\ prev.call = "_v2_scramble"
    /\ arg.indicator = <<0, 1, 1, 0, 0, 1, 0, 1>>
    /\ Len(prev.arg.parts[1]) = 18
    /\ prev.arg.parts[1] # prev.arg.parts[2]
    /\ ret.val = prev.arg.parts

\* C10: under an indicator with a key that is not legal, _v2_scramble and
\* _v2_unscramble raise the same error, the one of an illegal indicator.
C10_IllegalIndicator ==
    (Returned("_v2_scramble") \/ Returned("_v2_unscramble"))
      /\ ~LegalIndicator(arg.indicator) =>
        ~ret.ok /\ ret.exc = "ValueError" /\ ret.msg = "Illegal value for ternary bit"

(***************************************************************************)
(* The repeated digits of a half with data, checked under SpecHalf.        *)
(***************************************************************************)

\* The digits of a half: those of the indicator, then those of part 2.
DigitsOf(indicator, payload) ==
    HalfDigits(indicator, _v2_unscramble(indicator, payload).val)

LastFourRepeat(d) == \A i \in 1..4 : d[Len(d) - 4 + i] = d[i]

\* C9: _decode_v2_half_parts, for packet type 1 and a payload of 54 bits,
\* raises when the last 4 of the digits rebuilt from the indicator and part 2
\* differ from the first 4; what it returns as rolling is those digits less
\* the last 4, and it returns whenever they repeat and none is 3.  The halves
\* encode_v2 (with data) and encode_wireline build repeat the 4 digits.
C9_DuplicateDigits ==
    /\ Returned("_decode_v2_half_parts") /\ arg.packet_type = 1
         /\ Len(arg.payload) = 54 =>
          IF ~_v2_unscramble(arg.indicator, arg.payload).ok THEN ~ret.ok
          ELSE LET d == DigitsOf(arg.indicator, arg.payload)
               IN  /\ Len(d) = 13
                   /\ ~LastFourRepeat(d) => ~ret.ok /\ ret.exc = "ValueError"
                   /\ ret.ok => LastFourRepeat(d) /\ ret.val[1] = SubSeq(d, 1, 9)
                   /\ LastFourRepeat(d) /\ (\A i \in 1..13 : d[i] # 3) => ret.ok
    /\ (Returned("encode_v2") \/ Returned("encode_wireline")) /\ ret.ok
         /\ arg.data # None =>
          \A h \in 1..2 :
              LET half == TakeHalf(call, ret.val, h)
              IN  /\ _v2_unscramble(half[1], half[2]).ok
                  /\ Len(DigitsOf(half[1], half[2])) = 13
                  /\ LastFourRepeat(DigitsOf(half[1], half[2]))

\* A bit of a repeated digit flipped, and the half is refused for it.
C9_Witness ==
    /\ Returned("_decode_v2_half_parts")
    /\ ret.msg = "Last four ternary bits do not repeat first four"

=============================================================================
